---- MODULE Spec2Model ----
(***************************************************************************)
(* A model of planner.py: the Task entity, the DailyPlanner store with its *)
(* JSON persistence, the date and time parsing helpers and the interactive *)
(* command loop of main().                                                 *)
(*                                                                         *)
(* Python strings are modelled as sequences of one-character strings, so   *)
(* that len(), indexing, split(), join(), count(), int() and the string    *)
(* comparison used by list.sort() are computed as Python computes them.    *)
(* Optional[T] arguments are sequences of length 0 (None) or 1.            *)
(* A Python dict is a sequence of entries in insertion order.              *)
(***************************************************************************)
EXTENDS Integers, Sequences, FiniteSets, TLC

VARIABLES tasks, file, now, lastOp, pc, eof

vars == <<tasks, file, now, lastOp, pc, eof>>

(***************************************************************************)
(* Bounds of the model.                                                    *)
(***************************************************************************)
\* the largest number of tasks the store holds, over all dates
MaxTasks == 2
\* the last clock second of a session; the clock starts at second 0
MaxClock == 1

(***************************************************************************)
(* Characters and strings.                                                 *)
(***************************************************************************)
\* the characters of the model in code point order
AsciiOrder ==
  <<" ", "-", "0", "1", "2", "3", "4", "5", "6", "7", "8", "9", ":",
    "A", "B", "C", "D", "E", "F", "G", "H", "I", "J", "K", "L", "M",
    "N", "O", "P", "Q", "R", "S", "T", "U", "V", "W", "X", "Y", "Z",
    "a", "b", "c", "d", "e", "f", "g", "h", "i", "j", "k", "l", "m",
    "n", "o", "p", "q", "r", "s", "t", "u", "v", "w", "x", "y", "z">>

\* ord(c), up to the offset of the table
OrdTable ==
  [c \in {AsciiOrder[i] : i \in 1..Len(AsciiOrder)} |->
     CHOOSE i \in 1..Len(AsciiOrder) : AsciiOrder[i] = c]

Ord(c) == OrdTable[c]

DigitChars == <<"0", "1", "2", "3", "4", "5", "6", "7", "8", "9">>

IsDigit(c) == Ord(c) >= Ord("0") /\ Ord(c) <= Ord("9")

DigitVal(c) == Ord(c) - Ord("0")

\* s < t on Python strings: s is a proper prefix of t, or s has the smaller
\* character at the first position where they differ
StrLess(s, t) ==
  \E k \in 1..Len(t) :
    /\ k - 1 <= Len(s)
    /\ \A j \in 1..(k - 1) : s[j] = t[j]
    /\ \/ k = Len(s) + 1
       \/ k <= Len(s) /\ Ord(s[k]) < Ord(t[k])

\* c.lower() of one character
LowerChar(c) ==
  IF Ord(c) >= Ord("A") /\ Ord(c) <= Ord("Z")
  THEN AsciiOrder[Ord(c) + (Ord("a") - Ord("A"))]
  ELSE c

\* s.lower()
Lower(s) == [i \in 1..Len(s) |-> LowerChar(s[i])]

\* s.count(c) for a one-character c
Count(s, c) == Cardinality({i \in 1..Len(s) : s[i] = c})

\* c in s for a one-character c
Contains(s, c) == \E i \in 1..Len(s) : s[i] = c

\* s.split(sep) for a one-character sep: the segments between separators,
\* empty segments kept
RECURSIVE SplitOn(_, _)
SplitOn(s, sep) ==
  IF ~Contains(s, sep) THEN <<s>>
  ELSE LET i == CHOOSE k \in 1..Len(s) :
                  s[k] = sep /\ \A j \in 1..(k - 1) : s[j] # sep
       IN <<SubSeq(s, 1, i - 1)>> \o SplitOn(SubSeq(s, i + 1, Len(s)), sep)

\* s.split(): the maximal runs of non-blank characters
SplitWords(s) ==
  LET segs == SplitOn(s, " ")
  IN SelectSeq(segs, LAMBDA w : w # <<>>)

\* " ".join(words)
RECURSIVE JoinWords(_)
JoinWords(words) ==
  IF words = <<>> THEN <<>>
  ELSE IF Len(words) = 1 THEN words[1]
  ELSE words[1] \o <<" ">> \o JoinWords(Tail(words))

\* s.strip()
RECURSIVE Strip(_)
Strip(s) ==
  IF s = <<>> THEN s
  ELSE IF s[1] = " " THEN Strip(Tail(s))
  ELSE IF s[Len(s)] = " " THEN Strip(SubSeq(s, 1, Len(s) - 1))
  ELSE s

\* the value of a non-empty string of digits
RECURSIVE DecVal(_)
DecVal(s) ==
  IF s = <<>> THEN 0
  ELSE 10 * DecVal(SubSeq(s, 1, Len(s) - 1)) + DigitVal(s[Len(s)])

AllDigits(s) == s # <<>> /\ \A i \in 1..Len(s) : IsDigit(s[i])

\* int(s) as it would be if a string that is no number were read as 0, the
\* way C's atoi reads it
IntParse_mutant(s) ==
  IF s # <<>> /\ s[1] = "-"
  THEN IF AllDigits(Tail(s)) THEN <<0 - DecVal(Tail(s))>> ELSE <<0>>
  ELSE IF AllDigits(s) THEN <<DecVal(s)>> ELSE <<0>>

\* int(s): an optional sign and then digits; <<>> stands for ValueError
IntParse(s) ==
  IF s # <<>> /\ s[1] = "-"
  THEN IF AllDigits(Tail(s)) THEN <<0 - DecVal(Tail(s))>> ELSE <<>>
  ELSE IF AllDigits(s) THEN <<DecVal(s)>> ELSE <<>>

\* n written with at least w digits, as the %0wd conversion writes it
RECURSIVE ZeroPad(_, _)
ZeroPad(n, w) ==
  IF n < 10 /\ w <= 1 THEN <<DigitChars[n + 1]>>
  ELSE ZeroPad(n \div 10, w - 1) \o <<DigitChars[(n % 10) + 1]>>

(***************************************************************************)
(* Dates: a datetime.date is a record of year, month and day.              *)
(***************************************************************************)
IsLeap(y) == (y % 4 = 0 /\ y % 100 # 0) \/ y % 400 = 0

DaysInMonth(y, m) ==
  IF m = 2 THEN (IF IsLeap(y) THEN 29 ELSE 28)
  ELSE IF m \in {4, 6, 9, 11} THEN 30 ELSE 31

\* date + timedelta(days=1)
NextDay(d) ==
  IF d.day < DaysInMonth(d.year, d.month)
  THEN [d EXCEPT !.day = d.day + 1]
  ELSE IF d.month < 12
  THEN [year |-> d.year, month |-> d.month + 1, day |-> 1]
  ELSE [year |-> d.year + 1, month |-> 1, day |-> 1]

\* date + timedelta(days=n)
RECURSIVE AddDays(_, _)
AddDays(d, n) ==
  IF d.day + n <= DaysInMonth(d.year, d.month)
  THEN [d EXCEPT !.day = d.day + n]
  ELSE AddDays(NextDay(d), n - 1)

\* date.isoformat()
isoformat(d) ==
  ZeroPad(d.year, 4) \o <<"-">> \o ZeroPad(d.month, 2) \o <<"-">>
    \o ZeroPad(d.day, 2)

\* today as it would be if it were read off the UTC clock, a day ahead of
\* the user's
Today_mutant == [year |-> 2024, month |-> 3, day |-> 16]

\* datetime.date.today(): the session runs within one calendar day
Today == [year |-> 2024, month |-> 3, day |-> 15]

\* datetime.datetime.strptime(s, "%Y-%m-%d").date(); <<>> stands for
\* ValueError.  %Y is four digits, %m and %d are one or two digits in range,
\* and the text must be consumed whole.
strptime(s) ==
  LET segs == SplitOn(s, "-")
  IN IF Len(segs) # 3 THEN <<>>
     ELSE IF ~(/\ Len(segs[1]) = 4 /\ AllDigits(segs[1])
               /\ Len(segs[2]) \in {1, 2} /\ AllDigits(segs[2])
               /\ Len(segs[3]) \in {1, 2} /\ AllDigits(segs[3])) THEN <<>>
     ELSE LET y == DecVal(segs[1])
              m == DecVal(segs[2])
              d == DecVal(segs[3])
          IN IF y >= 1 /\ m \in 1..12 /\ d >= 1 /\ d <= DaysInMonth(y, m)
             THEN <<[year |-> y, month |-> m, day |-> d]>>
             ELSE <<>>

\* parse_date(date_str): an invalid text is reported and degrades to today
parse_date(s) == IF strptime(s) = <<>> THEN Today ELSE strptime(s)[1]

\* the days from 0001-01-01 to the first day of year y
DaysBeforeYear(y) ==
  (y - 1) * 365 + ((y - 1) \div 4) - ((y - 1) \div 100) + ((y - 1) \div 400)

RECURSIVE DaysBeforeMonth(_, _)
DaysBeforeMonth(y, m) ==
  IF m = 1 THEN 0 ELSE DaysBeforeMonth(y, m - 1) + DaysInMonth(y, m - 1)

\* date.toordinal()
toordinal(d) == DaysBeforeYear(d.year) + DaysBeforeMonth(d.year, d.month) + d.day

\* date.weekday(): Monday is 0
weekday(d) == (toordinal(d) + 6) % 7

\* date - timedelta(days=1)
PrevDay(d) ==
  IF d.day > 1 THEN [d EXCEPT !.day = d.day - 1]
  ELSE IF d.month > 1
  THEN [year |-> d.year, month |-> d.month - 1,
        day |-> DaysInMonth(d.year, d.month - 1)]
  ELSE [year |-> d.year - 1, month |-> 12, day |-> 31]

\* date - timedelta(days=n)
RECURSIVE SubDays(_, _)
SubDays(d, n) ==
  IF d.day - n >= 1 THEN [d EXCEPT !.day = d.day - n]
  ELSE SubDays(PrevDay(d), n - 1)

\* isoformat of the days around today, computed once
IsoTable ==
  [d \in {AddDays(SubDays(Today, 7), i) : i \in 0..21} |-> isoformat(d)]

(***************************************************************************)
(* Task.                                                                   *)
(***************************************************************************)
\* Task.__init__ as it would be if a task without an id took the id 0 and
\* not the clock second
Task_init_mutant(description, time, completed, task_id, clock) ==
  [id |-> IF task_id # <<>> THEN task_id[1] ELSE 0,
   description |-> description,
   time |-> time,
   completed |-> completed]

\* Task.__init__: task_id is None (<<>>) or an integer (<<n>>); clock is
\* int(datetime.datetime.now().timestamp())
Task_init(description, time, completed, task_id, clock) ==
  [id |-> IF task_id # <<>> THEN task_id[1] ELSE clock,
   description |-> description,
   time |-> time,
   completed |-> completed]

\* Task.to_dict: the JSON object of a task
to_dict(task) ==
  [t |-> "dict",
   v |-> [id |-> task.id, description |-> task.description,
          time |-> task.time, completed |-> task.completed]]

\* from_dict as it would be if it dropped the completed flag of the record
from_dict_mutant(data, clock) ==
  Task_init(data.description,
            IF "time" \in DOMAIN data THEN data.time ELSE <<>>,
            FALSE,
            IF "id" \in DOMAIN data THEN <<data.id>> ELSE <<>>,
            clock)

\* Task.from_dict for a JSON object that has a description
from_dict(data, clock) ==
  Task_init(data.description,
            IF "time" \in DOMAIN data THEN data.time ELSE <<>>,
            IF "completed" \in DOMAIN data THEN data.completed ELSE FALSE,
            IF "id" \in DOMAIN data THEN <<data.id>> ELSE <<>>,
            clock)

(***************************************************************************)
(* Python dict of date-key to list of Task, in insertion order.            *)
(***************************************************************************)
\* date_key in self.tasks
HasKey(d, k) == \E i \in 1..Len(d) : d[i].date = k

KeyIndex(d, k) == CHOOSE i \in 1..Len(d) : d[i].date = k

\* self.tasks.get(date_key, [])
GetList(d, k) == IF HasKey(d, k) THEN d[KeyIndex(d, k)].list ELSE <<>>

\* self.tasks[date_key] = lst
SetList(d, k, lst) ==
  IF HasKey(d, k) THEN [d EXCEPT ![KeyIndex(d, k)].list = lst]
  ELSE Append(d, [date |-> k, list |-> lst])

\* the date-keys of the mapping
Keys(d) == {d[i].date : i \in 1..Len(d)}

RECURSIVE SumLens(_)
SumLens(d) == IF d = <<>> THEN 0 ELSE Len(d[1].list) + SumLens(Tail(d))

(***************************************************************************)
(* The persisted file: absent, text that is no JSON, or a JSON value.  A   *)
(* JSON value is tagged: "dict" (an object), "list" (an array) or "other"  *)
(* (a number).                                                             *)
(***************************************************************************)
AbsentFile == [kind |-> "absent", data |-> <<>>]

GarbageFile == [kind |-> "garbage", data |-> <<>>]

JsonFile(data) == [kind |-> "json", data |-> data]

JOther == [t |-> "other", v |-> <<>>]

\* DailyPlanner.save_data: every date, every task, overwriting the file
save_data(d) ==
  JsonFile([t |-> "dict",
            v |-> [i \in 1..Len(d) |->
                    [date |-> d[i].date,
                     val |-> [t |-> "list",
                              v |-> [j \in 1..Len(d[i].list) |->
                                       to_dict(d[i].list[j])]]]]])

\* [Task.from_dict(task) for task in tasks] of load_data: the exception the
\* first offending element raises, or "ok"
ListStatus(val) ==
  IF val.t # "list" THEN "TypeError"
  ELSE LET bad == {j \in 1..Len(val.v) :
                     \/ val.v[j].t # "dict"
                     \/ "description" \notin DOMAIN val.v[j].v}
       IN IF bad = {} THEN "ok"
          ELSE LET j == CHOOSE x \in bad : \A y \in bad : x <= y
               IN IF val.v[j].t # "dict" THEN "TypeError" ELSE "KeyError"

\* the loop of load_data over data.items(): the mapping after the entries
\* converted so far, and how the loop ended
RECURSIVE LoadEntries(_, _, _)
LoadEntries(entries, d, clock) ==
  IF entries = <<>> THEN [tasks |-> d, status |-> "ok"]
  ELSE LET e == entries[1]
           st == ListStatus(e.val)
       IN IF st # "ok" THEN [tasks |-> d, status |-> st]
          ELSE LoadEntries(Tail(entries),
                           SetList(d, e.date,
                                   [j \in 1..Len(e.val.v) |->
                                      from_dict(e.val.v[j].v, clock)]),
                           clock)

\* DailyPlanner.load_data on the mapping d: JSONDecodeError and KeyError are
\* caught and reset the mapping; any other exception leaves the method
load_data(d, f, clock) ==
  IF f.kind = "absent" THEN [tasks |-> d, ret |-> "None"]
  ELSE IF f.kind = "garbage" THEN [tasks |-> <<>>, ret |-> "None"]
  ELSE IF f.data.t # "dict" THEN [tasks |-> d, ret |-> "raised"]
  ELSE LET r == LoadEntries(f.data.v, d, clock)
       IN IF r.status = "ok" THEN [tasks |-> r.tasks, ret |-> "None"]
          ELSE IF r.status = "KeyError" THEN [tasks |-> <<>>, ret |-> "None"]
          ELSE [tasks |-> r.tasks, ret |-> "raised"]

\* DailyPlanner.__init__: an empty mapping, then load_data
DailyPlanner_init(f, clock) == load_data(<<>>, f, clock)

(***************************************************************************)
(* The store operations.  Each yields the mapping and the file it leaves   *)
(* and the value it returns.                                               *)
(***************************************************************************)
\* get_date_key as it would be if it took today whatever the date given
get_date_key_mutant(date) == isoformat(Today)

\* DailyPlanner.get_date_key: date is None (<<>>) or a date (<<d>>)
get_date_key(date) ==
  LET d == IF date = <<>> THEN Today ELSE date[1]
  IN IF d \in DOMAIN IsoTable THEN IsoTable[d] ELSE isoformat(d)

\* DailyPlanner.get_tasks
get_tasks(d, date) == GetList(d, get_date_key(date))

\* the position of the first task of lst with the given id, 0 if none
FirstWithId(lst, task_id) ==
  IF \E i \in 1..Len(lst) : lst[i].id = task_id
  THEN CHOOSE i \in 1..Len(lst) :
         lst[i].id = task_id /\ \A j \in 1..(i - 1) : lst[j].id # task_id
  ELSE 0

\* add_task as it would be if it inserted the task at the head of the list
add_task_mutant(d, f, description, time, date, clock) ==
  LET key == get_date_key(date)
      d1 == IF HasKey(d, key) THEN d ELSE SetList(d, key, <<>>)
      task == Task_init(description, time, FALSE, <<>>, clock)
      d2 == SetList(d1, key, <<task>> \o GetList(d1, key))
  IN [tasks |-> d2, file |-> save_data(d2), ret |-> "None"]

\* DailyPlanner.add_task
add_task(d, f, description, time, date, clock) ==
  LET key == get_date_key(date)
      d1 == IF HasKey(d, key) THEN d ELSE SetList(d, key, <<>>)
      task == Task_init(description, time, FALSE, <<>>, clock)
      d2 == SetList(d1, key, Append(GetList(d1, key), task))
  IN [tasks |-> d2, file |-> save_data(d2), ret |-> "None"]

\* complete_task as it would be if it set the flag instead of toggling it
complete_task_mutant(d, f, task_id, date) ==
  LET key == get_date_key(date)
      lst == GetList(d, key)
      i == FirstWithId(lst, task_id)
  IN IF HasKey(d, key) /\ i # 0
     THEN LET d2 == SetList(d, key, [lst EXCEPT ![i].completed = TRUE])
          IN [tasks |-> d2, file |-> save_data(d2), ret |-> "True"]
     ELSE [tasks |-> d, file |-> f, ret |-> "False"]

\* DailyPlanner.complete_task
complete_task(d, f, task_id, date) ==
  LET key == get_date_key(date)
      lst == GetList(d, key)
      i == FirstWithId(lst, task_id)
  IN IF HasKey(d, key) /\ i # 0
     THEN LET d2 == SetList(d, key,
                            [lst EXCEPT ![i].completed = ~lst[i].completed])
          IN [tasks |-> d2, file |-> save_data(d2), ret |-> "True"]
     ELSE [tasks |-> d, file |-> f, ret |-> "False"]

\* update_task as it would be if it tested the time for truth, as it tests
\* the description
update_task_mutant(d, f, task_id, description, time, date) ==
  LET key == get_date_key(date)
      lst == GetList(d, key)
      i == FirstWithId(lst, task_id)
  IN IF HasKey(d, key) /\ i # 0
     THEN LET t1 == IF description # <<>> /\ description[1] # <<>>
                    THEN [lst[i] EXCEPT !.description = description[1]]
                    ELSE lst[i]
              t2 == IF time # <<>> /\ time[1] # <<>>
                    THEN [t1 EXCEPT !.time = time[1]] ELSE t1
              d2 == SetList(d, key, [lst EXCEPT ![i] = t2])
          IN [tasks |-> d2, file |-> save_data(d2), ret |-> "True"]
     ELSE [tasks |-> d, file |-> f, ret |-> "False"]

\* DailyPlanner.update_task: description and time are None (<<>>) or a
\* string (<<s>>)
update_task(d, f, task_id, description, time, date) ==
  LET key == get_date_key(date)
      lst == GetList(d, key)
      i == FirstWithId(lst, task_id)
  IN IF HasKey(d, key) /\ i # 0
     THEN LET t1 == IF description # <<>> /\ description[1] # <<>>
                    THEN [lst[i] EXCEPT !.description = description[1]]
                    ELSE lst[i]
              t2 == IF time # <<>> THEN [t1 EXCEPT !.time = time[1]] ELSE t1
              d2 == SetList(d, key, [lst EXCEPT ![i] = t2])
          IN [tasks |-> d2, file |-> save_data(d2), ret |-> "True"]
     ELSE [tasks |-> d, file |-> f, ret |-> "False"]

\* pop as it would be without its index: list.pop() removes the last element
Pop_mutant(lst, i) == SubSeq(lst, 1, Len(lst) - 1)

\* list.pop(i)
Pop(lst, i) == SubSeq(lst, 1, i - 1) \o SubSeq(lst, i + 1, Len(lst))

\* delete_task as it would be if it created the date's list, as add_task
\* does, before searching it
delete_task_mutant(d, f, task_id, date) ==
  LET key == get_date_key(date)
      d1 == IF HasKey(d, key) THEN d ELSE SetList(d, key, <<>>)
      lst == GetList(d1, key)
      i == FirstWithId(lst, task_id)
  IN IF i # 0
     THEN LET d2 == SetList(d1, key, Pop(lst, i))
          IN [tasks |-> d2, file |-> save_data(d2), ret |-> "True"]
     ELSE [tasks |-> d1, file |-> f, ret |-> "False"]

\* DailyPlanner.delete_task
delete_task(d, f, task_id, date) ==
  LET key == get_date_key(date)
      lst == GetList(d, key)
      i == FirstWithId(lst, task_id)
  IN IF HasKey(d, key) /\ i # 0
     THEN LET d2 == SetList(d, key, Pop(lst, i))
          IN [tasks |-> d2, file |-> save_data(d2), ret |-> "True"]
     ELSE [tasks |-> d, file |-> f, ret |-> "False"]

\* the sort key of display_tasks: t.time if t.time else "23:59"
SortKey(task) ==
  IF task.time # <<>> THEN task.time ELSE <<"2", "3", ":", "5", "9">>

\* the insertion as it would be if the sort went through a dict keyed by
\* time: a task whose key is already there is lost
InsertByKey_mutant(sorted, x) ==
  LET greater == {i \in 1..Len(sorted) : StrLess(SortKey(x), SortKey(sorted[i]))}
  IN IF \E i \in 1..Len(sorted) : SortKey(sorted[i]) = SortKey(x) THEN sorted
     ELSE IF greater = {} THEN Append(sorted, x)
     ELSE LET i == CHOOSE a \in greater : \A b \in greater : a <= b
          IN SubSeq(sorted, 1, i - 1) \o <<x>> \o SubSeq(sorted, i, Len(sorted))

\* one insertion of a stable sort: x goes before the first element whose key
\* is greater than its own, after every element whose key is not
InsertByKey(sorted, x) ==
  LET greater == {i \in 1..Len(sorted) : StrLess(SortKey(x), SortKey(sorted[i]))}
  IN IF greater = {} THEN Append(sorted, x)
     ELSE LET i == CHOOSE a \in greater : \A b \in greater : a <= b
          IN SubSeq(sorted, 1, i - 1) \o <<x>> \o SubSeq(sorted, i, Len(sorted))

\* tasks.sort(key=...): list.sort is stable
RECURSIVE SortFrom(_, _)
SortFrom(sorted, rest) ==
  IF rest = <<>> THEN sorted
  ELSE SortFrom(InsertByKey(sorted, rest[1]), Tail(rest))

SortByTime(lst) == SortFrom(<<>>, lst)

\* DailyPlanner.display_tasks: the stored list itself is sorted, and nothing
\* is saved; out is the tasks in the order their lines are printed
display_tasks(d, f, date) ==
  LET key == get_date_key(date)
      lst == GetList(d, key)
      sorted == SortByTime(lst)
  IN IF lst = <<>> THEN [tasks |-> d, file |-> f, ret |-> "None", out |-> <<>>]
     ELSE [tasks |-> SetList(d, key, sorted), file |-> f, ret |-> "None",
           out |-> sorted]

\* the loop of display_week from day i on; a date past 9999-12-31 raises
\* OverflowError and leaves the lists displayed so far sorted
RECURSIVE WeekFrom(_, _, _, _, _)
WeekFrom(d, f, start, i, out) ==
  IF i = 7 THEN [tasks |-> d, file |-> f, ret |-> "None", out |-> out]
  ELSE LET current_date == AddDays(start, i)
           r == display_tasks(d, f, <<current_date>>)
       IN IF current_date.year > 9999
          THEN [tasks |-> d, file |-> f, ret |-> "raised", out |-> out]
          ELSE WeekFrom(r.tasks, f, start, i + 1, out \o r.out)

\* DailyPlanner.display_week: start_date is None (<<>>) or a date
display_week(d, f, start_date) ==
  LET start == IF start_date = <<>> THEN SubDays(Today, weekday(Today))
               ELSE start_date[1]
  IN WeekFrom(d, f, start, 0, <<>>)

(***************************************************************************)
(* Inputs of the model.                                                    *)
(***************************************************************************)
OtherDay == [year |-> 2024, month |-> 3, day |-> 16]

DescA == <<"a">>

DescB == <<"b">>

NoTime == <<>>

Time0830 == <<"0", "8", ":", "3", "0">>

Time2359 == <<"2", "3", ":", "5", "9">>

\* the descriptions and times a caller adds tasks with
AddDescs == {DescA}

AddTimes == {NoTime, Time0830, Time2359}

\* the optional description and time a caller updates a task with
UpdateDescs == {<<>>, <<<<>>>>, <<DescB>>}

UpdateTimes == {<<>>, <<NoTime>>}

\* the optional date a caller names: None is today
DateArgs == {<<>>, <<OtherDay>>}

IdArgs == 0..MaxClock

\* the states the persisted file is found in at startup
FileRecordFull ==
  [t |-> "dict",
   v |-> [id |-> 0, description |-> DescA, time |-> Time2359,
          completed |-> TRUE]]

FileRecordBare == [t |-> "dict", v |-> [description |-> DescB]]

FileRecordNoDescription == [t |-> "dict", v |-> [id |-> 0, time |-> NoTime]]

FileOf(key, val) ==
  JsonFile([t |-> "dict", v |-> <<[date |-> key, val |-> val]>>])

InitFiles ==
  {AbsentFile,
   GarbageFile,
   JsonFile(JOther),
   FileOf(isoformat(Today), JOther),
   FileOf(isoformat(Today), [t |-> "list", v |-> <<JOther>>]),
   FileOf(isoformat(Today), [t |-> "list", v |-> <<FileRecordNoDescription>>]),
   FileOf(isoformat(Today), [t |-> "list", v |-> <<FileRecordBare>>]),
   FileOf(isoformat(OtherDay), [t |-> "list", v |-> <<FileRecordFull>>]),
   FileOf(isoformat(OtherDay), [t |-> "list", v |-> <<>>])}

(***************************************************************************)
(* The store as a state machine: a caller constructs the store on the      *)
(* file and then calls its operations in any order.                        *)
(***************************************************************************)
\* the record of the last call: the operation, what it returned and the
\* tasks it printed
Call(op, ret, out) == [op |-> op, ret |-> ret, out |-> out]

NoCall == Call("none", "None", <<>>)

Init ==
  /\ tasks = <<>>
  /\ file \in InitFiles
  /\ now = 0
  /\ lastOp = NoCall
  /\ pc = "new"
  /\ eof = FALSE

\* a second of the wall clock passes
Tick ==
  /\ now < MaxClock
  /\ now' = now + 1
  /\ UNCHANGED <<tasks, file, lastOp, pc, eof>>

\* DailyPlanner(): at startup, and whenever the program is started again on
\* the same file
Construct ==
  /\ pc \in {"new", "ready"}
  /\ LET r == DailyPlanner_init(file, now)
     IN /\ tasks' = (IF r.ret = "raised" THEN <<>> ELSE r.tasks)
        /\ pc' = (IF r.ret = "raised" THEN "crashed" ELSE "ready")
        /\ lastOp' = Call("load_data", r.ret, <<>>)
  /\ SumLens(tasks') <= MaxTasks
  /\ UNCHANGED <<file, now, eof>>

AddTask ==
  /\ pc = "ready"
  /\ SumLens(tasks) < MaxTasks
  /\ \E description \in AddDescs, time \in AddTimes, date \in DateArgs :
       LET r == add_task(tasks, file, description, time, date, now)
       IN /\ tasks' = r.tasks
          /\ file' = r.file
          /\ lastOp' = Call("add_task", r.ret, <<>>)
  /\ UNCHANGED <<now, pc, eof>>

CompleteTask ==
  /\ pc = "ready"
  /\ \E task_id \in IdArgs, date \in DateArgs :
       LET r == complete_task(tasks, file, task_id, date)
       IN /\ tasks' = r.tasks
          /\ file' = r.file
          /\ lastOp' = Call("complete_task", r.ret, <<>>)
  /\ UNCHANGED <<now, pc, eof>>

UpdateTask ==
  /\ pc = "ready"
  /\ \E task_id \in IdArgs, description \in UpdateDescs, time \in UpdateTimes,
        date \in DateArgs :
       LET r == update_task(tasks, file, task_id, description, time, date)
       IN /\ tasks' = r.tasks
          /\ file' = r.file
          /\ lastOp' = Call("update_task", r.ret, <<>>)
  /\ UNCHANGED <<now, pc, eof>>

DeleteTask ==
  /\ pc = "ready"
  /\ \E task_id \in IdArgs, date \in DateArgs :
       LET r == delete_task(tasks, file, task_id, date)
       IN /\ tasks' = r.tasks
          /\ file' = r.file
          /\ lastOp' = Call("delete_task", r.ret, <<>>)
  /\ UNCHANGED <<now, pc, eof>>

DisplayTasks ==
  /\ pc = "ready"
  /\ \E date \in DateArgs :
       LET r == display_tasks(tasks, file, date)
       IN /\ tasks' = r.tasks
          /\ file' = r.file
          /\ lastOp' = Call("display_tasks", r.ret, r.out)
  /\ UNCHANGED <<now, pc, eof>>

DisplayWeek ==
  /\ pc = "ready"
  /\ \E start_date \in DateArgs :
       LET r == display_week(tasks, file, start_date)
       IN /\ tasks' = r.tasks
          /\ file' = r.file
          /\ lastOp' = Call("display_week", r.ret, r.out)
  /\ UNCHANGED <<now, pc, eof>>

SaveData ==
  /\ pc = "ready"
  /\ file' = save_data(tasks)
  /\ lastOp' = Call("save_data", "None", <<>>)
  /\ UNCHANGED <<tasks, now, pc, eof>>

Next ==
  \/ Tick
  \/ Construct
  \/ AddTask
  \/ CompleteTask
  \/ UpdateTask
  \/ DeleteTask
  \/ DisplayTasks
  \/ DisplayWeek
  \/ SaveData

Spec == Init /\ [][Next]_vars

(***************************************************************************)
(* The store beside another writer of its file: load_data is a public      *)
(* method, which a caller may call again on a store that holds tasks,      *)
(* after another program (a second planner on the same file, an editor)    *)
(* has written the file.                                                   *)
(***************************************************************************)
\* another program writes the file
Rewrite ==
  /\ pc = "ready"
  /\ file' \in InitFiles \ {file}
  /\ lastOp' = NoCall
  /\ UNCHANGED <<tasks, now, pc, eof>>

\* load_data() on the store as it is; an exception leaves the method with
\* the entries converted so far in the mapping
LoadData ==
  /\ pc = "ready"
  /\ LET r == load_data(tasks, file, now)
     IN /\ tasks' = r.tasks
        /\ lastOp' = Call("load_data", r.ret, <<>>)
  /\ SumLens(tasks') <= MaxTasks
  /\ UNCHANGED <<file, now, pc, eof>>

ReloadNext ==
  \/ Tick
  \/ Construct
  \/ AddTask
  \/ Rewrite
  \/ LoadData

ReloadSpec == Init /\ [][ReloadNext]_vars

(***************************************************************************)
(* main(): the interactive loop.                                           *)
(***************************************************************************)
\* the test for a time as it would be if it took the hour on a 12-hour clock
IsTimeToken_mutant(part) ==
  /\ Contains(part, ":")
  /\ Len(part) = 5
  /\ part[3] = ":"
  /\ LET ps == SplitOn(part, ":")
         hour == IntParse(ps[1])
         minute == IntParse(ps[2])
     IN /\ Len(ps) = 2
        /\ hour # <<>>
        /\ minute # <<>>
        /\ 0 <= hour[1] /\ hour[1] <= 12
        /\ 0 <= minute[1] /\ minute[1] <= 59

\* the test of the add command for a time: the HH:MM shape, and both parts
\* parse as integers with hour in 0..23 and minute in 0..59; any failure
\* (an int() that raises, a wrong number of parts) is ValueError and is
\* passed over
IsTimeToken(part) ==
  /\ Contains(part, ":")
  /\ Len(part) = 5
  /\ part[3] = ":"
  /\ LET ps == SplitOn(part, ":")
         hour == IntParse(ps[1])
         minute == IntParse(ps[2])
     IN /\ Len(ps) = 2
        /\ hour # <<>>
        /\ minute # <<>>
        /\ 0 <= hour[1] /\ hour[1] <= 23
        /\ 0 <= minute[1] /\ minute[1] <= 59

\* the add command on parts (parts[1] is the command word, two parts at
\* least): the description, time and optional date it calls add_task with
AddArgs(parts) ==
  LET n == Len(parts)
      last == parts[n]
      dated == n >= 3 /\ Contains(last, "-") /\ Count(last, "-") = 2
      date == IF dated THEN <<parse_date(last)>> ELSE <<>>
      description0 == IF dated THEN JoinWords(SubSeq(parts, 2, n - 1))
                      ELSE JoinWords(SubSeq(parts, 2, n))
      timed == {k \in 2..n : IsTimeToken(parts[k])}
  IN IF timed = {}
     THEN [description |-> description0, time |-> <<>>, date |-> date]
     ELSE LET k == CHOOSE a \in timed : \A b \in timed : a <= b
              description1 ==
                JoinWords(SubSeq(parts, 2, k - 1) \o SubSeq(parts, k + 1, n))
              words == SplitWords(description1)
          IN [description |->
                IF date # <<>>
                THEN JoinWords(SubSeq(words, 1, Len(words) - 1))
                ELSE description1,
              time |-> parts[k],
              date |-> date]

\* what one pass of the loop leaves: the store, the call made on it (NoCall
\* when the command makes none) and whether the loop goes on
Pass(d, f, call, go) == [tasks |-> d, file |-> f, call |-> call, go |-> go]

\* a store operation called by a command: an exception it raises is caught
\* at the loop level and the loop goes on
Called(op, r) ==
  Pass(r.tasks, r.file,
       Call(op, r.ret, IF "out" \in DOMAIN r THEN r.out ELSE <<>>), TRUE)

\* one pass of the while loop of main() on the line raw that input() returned
main_step(d, f, clock, raw) ==
  LET user_input == Strip(raw)
      parts == SplitWords(user_input)
      n == Len(parts)
      command == Lower(parts[1])
      skip == Pass(d, f, NoCall, TRUE)
      \* int(parts[1]) raised ValueError: "Task ID must be a number."
      bad_id == Pass(d, f, Call("none", "ValueError", <<>>), TRUE)
  IN IF user_input = <<>> THEN skip
     ELSE IF command = <<"e", "x", "i", "t">> THEN Pass(d, f, NoCall, FALSE)
     ELSE IF command = <<"h", "e", "l", "p">> THEN skip
     ELSE IF command = <<"a", "d", "d">>
     THEN IF n < 2 THEN skip
          ELSE LET args == AddArgs(parts)
               IN Called("add_task",
                         add_task(d, f, args.description, args.time, args.date,
                                  clock))
     ELSE IF command = <<"l", "i", "s", "t">>
     THEN Called("display_tasks",
                 display_tasks(d, f, IF n > 1 THEN <<parse_date(parts[2])>>
                                     ELSE <<>>))
     ELSE IF command = <<"w", "e", "e", "k">>
     THEN Called("display_week",
                 display_week(d, f, IF n > 1 THEN <<parse_date(parts[2])>>
                                    ELSE <<>>))
     ELSE IF command = <<"c", "o", "m", "p", "l", "e", "t", "e">>
     THEN IF n # 2 THEN skip
          ELSE IF IntParse(parts[2]) = <<>> THEN bad_id
          ELSE Called("complete_task",
                      complete_task(d, f, IntParse(parts[2])[1], <<>>))
     ELSE IF command = <<"u", "p", "d", "a", "t", "e">>
     THEN IF n < 3 THEN skip
          ELSE IF IntParse(parts[2]) = <<>> THEN bad_id
          ELSE Called("update_task",
                      update_task(d, f, IntParse(parts[2])[1],
                                  <<JoinWords(SubSeq(parts, 3, n))>>, <<>>,
                                  <<>>))
     ELSE IF command = <<"t", "i", "m", "e">>
     THEN IF n # 3 THEN skip
          ELSE IF IntParse(parts[2]) = <<>> THEN bad_id
          ELSE Called("update_task",
                      update_task(d, f, IntParse(parts[2])[1], <<>>,
                                  <<parts[3]>>, <<>>))
     ELSE IF command = <<"d", "e", "l", "e", "t", "e">>
     THEN IF n # 2 THEN skip
          ELSE IF IntParse(parts[2]) = <<>> THEN bad_id
          ELSE Called("delete_task",
                      delete_task(d, f, IntParse(parts[2])[1], <<>>))
     ELSE skip

(***************************************************************************)
(* The lines the user types.                                               *)
(***************************************************************************)
OtherDayText == <<"2", "0", "2", "4", "-", "0", "3", "-", "1", "6">>

WordAdd == <<"a", "d", "d">>

WordList == <<"l", "i", "s", "t">>

WordWeek == <<"w", "e", "e", "k">>

WordComplete == <<"c", "o", "m", "p", "l", "e", "t", "e">>

WordUpdate == <<"u", "p", "d", "a", "t", "e">>

WordTime == <<"t", "i", "m", "e">>

WordDelete == <<"d", "e", "l", "e", "t", "e">>

Lines ==
  {<<" ">>,
   <<"h", "e", "l", "p">>,
   <<"E", "x", "i", "t">>,
   <<"n", "o", "p", "e">>,
   WordAdd,
   <<" ", "A", "d", "d", " ", " ", "a", " ">>,
   JoinWords(<<WordAdd, DescA, Time0830>>),
   JoinWords(<<WordAdd, DescA, DescB, Time2359, OtherDayText>>),
   JoinWords(<<WordAdd, DescA, OtherDayText>>),
   WordList,
   JoinWords(<<WordList, OtherDayText>>),
   WordWeek,
   JoinWords(<<WordComplete, <<"0">>>>),
   JoinWords(<<WordComplete, <<"1">>>>),
   JoinWords(<<WordComplete, <<"x">>>>),
   JoinWords(<<WordUpdate, <<"0">>, DescB>>),
   JoinWords(<<WordUpdate, <<"x">>, DescB>>),
   JoinWords(<<WordTime, <<"0">>, Time0830>>),
   JoinWords(<<WordTime, <<"1">>>>),
   JoinWords(<<WordDelete, <<"0">>>>),
   JoinWords(<<WordDelete, <<"1">>>>),
   JoinWords(<<WordDelete, <<"x">>>>)}

(***************************************************************************)
(* The session as a state machine: startup, then one pass of the loop per  *)
(* line read, until exit or an interrupt.                                  *)
(***************************************************************************)
ShellInit ==
  /\ tasks = <<>>
  /\ file \in InitFiles
  /\ now = 0
  /\ lastOp = NoCall
  /\ pc = "start"
  /\ eof = FALSE

\* main() up to the loop: the store is constructed, which ends the program
\* when load_data raises, and today's tasks are displayed
Startup ==
  /\ pc = "start"
  /\ LET r == DailyPlanner_init(file, now)
         shown == display_tasks(r.tasks, file, <<>>)
     IN IF r.ret = "raised"
        THEN /\ tasks' = <<>>
             /\ pc' = "crashed"
             /\ lastOp' = Call("load_data", r.ret, <<>>)
        ELSE /\ tasks' = shown.tasks
             /\ pc' = "input"
             /\ lastOp' = Call("display_tasks", shown.ret, shown.out)
  /\ UNCHANGED <<file, now, eof>>

\* input() returns a line and the loop makes one pass on it
ReadLine ==
  /\ pc = "input"
  /\ ~eof
  /\ \E raw \in Lines :
       LET r == main_step(tasks, file, now, raw)
       IN /\ SumLens(r.tasks) <= MaxTasks
          /\ tasks' = r.tasks
          /\ file' = r.file
          /\ lastOp' = r.call
          /\ pc' = (IF r.go THEN "input" ELSE "done")
  /\ UNCHANGED <<now, eof>>

\* input() raises EOFError at the end of the input: an Exception, which the
\* loop's last handler catches and reports, and the loop goes on
ReadEOF ==
  /\ pc = "input"
  /\ eof' = TRUE
  /\ lastOp' = Call("input", "raised", <<>>)
  /\ UNCHANGED <<tasks, file, now, pc>>

\* KeyboardInterrupt while waiting for input: the loop ends
Interrupt ==
  /\ pc = "input"
  /\ pc' = "done"
  /\ lastOp' = Call("input", "interrupt", <<>>)
  /\ UNCHANGED <<tasks, file, now, eof>>

ShellNext ==
  \/ Tick
  \/ Startup
  \/ ReadLine
  \/ ReadEOF
  \/ Interrupt

ShellSpec == ShellInit /\ [][ShellNext]_vars

(***************************************************************************)
(* A second session, in which the user types lines at the edges of the     *)
(* command grammar: an add line with nothing but a time, a last token that *)
(* has the shape of a date and of a time, a time command with a token that *)
(* is no time.                                                             *)
(***************************************************************************)
TimeDashes == <<"-", "0", ":", "-", "0">>

Time9am == <<"9", "a", "m">>

EdgeLines ==
  {JoinWords(<<WordAdd, DescA>>),
   JoinWords(<<WordAdd, Time0830>>),
   JoinWords(<<WordAdd, Time0830, OtherDayText>>),
   JoinWords(<<WordAdd, DescA, TimeDashes>>),
   JoinWords(<<WordAdd, DescA, DescB, <<"1", "-", "2", "-", "3">>>>),
   JoinWords(<<WordTime, <<"0">>, Time9am>>),
   JoinWords(<<WordTime, <<"0">>, Time0830>>),
   JoinWords(<<WordTime, <<"x">>, Time0830>>),
   JoinWords(<<WordComplete, <<"-", "0">>>>),
   WordList,
   <<"e", "x", "i", "t">>}

\* input() returns one of the edge lines and the loop makes one pass on it
ReadEdgeLine ==
  /\ pc = "input"
  /\ \E raw \in EdgeLines :
       LET r == main_step(tasks, file, now, raw)
       IN /\ SumLens(r.tasks) <= MaxTasks
          /\ tasks' = r.tasks
          /\ file' = r.file
          /\ lastOp' = r.call
          /\ pc' = (IF r.go THEN "input" ELSE "done")
  /\ UNCHANGED <<now, eof>>

EdgeShellNext ==
  \/ Tick
  \/ Startup
  \/ ReadEdgeLine

EdgeShellSpec == ShellInit /\ [][EdgeShellNext]_vars

(***************************************************************************)
(* Properties of the store.                                                *)
(***************************************************************************)
Ready == pc = "ready"

StoreOps ==
  {"add_task", "complete_task", "update_task", "delete_task", "display_tasks",
   "display_week"}

\* the tasks of every list of the mapping
AllTasks(d) ==
  UNION {{d[i].list[j] : j \in 1..Len(d[i].list)} : i \in 1..Len(d)}

\* C1: after add_task(description, time, date) the list get_tasks(date) is
\* the list it was before with one task appended, which has the given
\* description and time and is not completed.
C1_AddAppendsOneTask ==
  Ready =>
    \A description \in AddDescs, time \in AddTimes, date \in DateArgs :
      LET before == get_tasks(tasks, date)
          r == add_task(tasks, file, description, time, date, now)
          after == get_tasks(r.tasks, date)
      IN /\ Len(after) = Len(before) + 1
         /\ SubSeq(after, 1, Len(before)) = before
         /\ after[Len(after)].description = description
         /\ after[Len(after)].time = time
         /\ after[Len(after)].completed = FALSE

\* an add_task has appended a second task to a list
C1_Witness ==
  /\ lastOp.op = "add_task"
  /\ \E date \in DateArgs :
       /\ Len(get_tasks(tasks, date)) = 2
       /\ get_tasks(tasks, date)[2].time = Time0830
       /\ get_tasks(tasks, date)[2].completed = FALSE
       /\ get_tasks(tasks, date)[1].completed = TRUE

\* C2: every store operation that changes the mapping has saved it when it
\* returns: the file is then the encoding of the mapping in memory.
C2_MutationsAreSaved ==
  [][lastOp'.op \in StoreOps =>
       \/ tasks' = tasks /\ file' = file
       \/ file' = save_data(tasks')]_vars

\* C3: save_data followed by load_data of a freshly constructed store on the
\* same file gives the mapping that was saved: the same date-keys and for
\* each the same tasks with the same id, description, time and completed.
C3_SaveLoadRoundTrip ==
  Ready =>
    LET r == DailyPlanner_init(save_data(tasks), now)
    IN r.ret = "None" /\ r.tasks = tasks

\* a store was constructed on a file that a save wrote, with a date whose
\* list a deletion emptied beside a completed task with a time
C3_Witness ==
  /\ lastOp.op = "load_data"
  /\ Ready
  /\ file = save_data(tasks)
  /\ \E i \in 1..Len(tasks) : tasks[i].list = <<>>
  /\ \E t \in AllTasks(tasks) : t.completed /\ t.time # <<>> /\ t.id = 1

\* C4: load_data returns without raising for every state of the file, and a
\* corrupt file leaves the empty mapping.
C4_LoadNeverRaises ==
  lastOp.op = "load_data" =>
    /\ lastOp.ret # "raised"
    /\ (file.kind = "garbage" => tasks = <<>>)

\* C5: two calls of complete_task(id, date) in a row, for an id the list
\* has, give back the mapping as it was: the task has its original completed
\* value and every other task is as it was; the first call toggles the first
\* task with the id and nothing else.
C5_CompleteTwiceRestores ==
  Ready =>
    \A task_id \in IdArgs, date \in DateArgs :
      LET lst == get_tasks(tasks, date)
          i == FirstWithId(lst, task_id)
          r1 == complete_task(tasks, file, task_id, date)
          r2 == complete_task(r1.tasks, r1.file, task_id, date)
          lst1 == get_tasks(r1.tasks, date)
      IN i # 0 =>
           /\ r1.ret = "True" /\ r2.ret = "True"
           /\ lst1[i].completed = ~lst[i].completed
           /\ \A j \in 1..Len(lst) : j # i => lst1[j] = lst[j]
           /\ r2.tasks = tasks

\* complete_task has acted on a list in which two tasks share the id
C5_Witness ==
  /\ lastOp = Call("complete_task", "True", <<>>)
  /\ \E date \in DateArgs :
       LET lst == get_tasks(tasks, date)
       IN /\ Len(lst) = 2
          /\ lst[1].id = lst[2].id
          /\ lst[1].completed /\ ~lst[2].completed

\* C6: update_task on a task found by id: an empty description leaves the
\* description, a non-empty one replaces it, an empty time sets the time to
\* the empty string, and None leaves the field.
C6_UpdateAsymmetry ==
  Ready =>
    \A task_id \in IdArgs, date \in DateArgs, description \in UpdateDescs,
       time \in UpdateTimes \cup {<<Time0830>>} :
      LET lst == get_tasks(tasks, date)
          i == FirstWithId(lst, task_id)
          r == update_task(tasks, file, task_id, description, time, date)
          new == get_tasks(r.tasks, date)
      IN i # 0 =>
           /\ r.ret = "True"
           /\ Len(new) = Len(lst)
           /\ new[i].description =
                (IF description = <<>> \/ description = <<<<>>>>
                 THEN lst[i].description ELSE description[1])
           /\ new[i].time = (IF time = <<>> THEN lst[i].time ELSE time[1])

\* update_task has acted on a list of two tasks, which both have the
\* replaced description and no time
C6_Witness ==
  /\ lastOp = Call("update_task", "True", <<>>)
  /\ file = save_data(tasks)
  /\ \E date \in DateArgs :
       LET lst == get_tasks(tasks, date)
       IN /\ Len(lst) = 2
          /\ \A i \in 1..2 : lst[i].description = DescB /\ lst[i].time = NoTime

\* C7: complete_task, update_task and delete_task with an id that no task of
\* the date's list has return False and leave the mapping and the file as
\* they were, also when the date has no list.
C7_NotFoundHasNoEffect ==
  Ready =>
    \A task_id \in IdArgs \cup {MaxClock + 1}, date \in DateArgs :
      FirstWithId(get_tasks(tasks, date), task_id) = 0 =>
        LET same(r) == r.ret = "False" /\ r.tasks = tasks /\ r.file = file
        IN /\ same(complete_task(tasks, file, task_id, date))
           /\ same(delete_task(tasks, file, task_id, date))
           /\ \A description \in UpdateDescs, time \in UpdateTimes :
                same(update_task(tasks, file, task_id, description, time, date))

\* delete_task has returned False on a store that holds a task, with a date
\* that has no list and a date whose list lacks an id
C7_Witness ==
  /\ lastOp = Call("delete_task", "False", <<>>)
  /\ Len(tasks) = 1
  /\ Len(tasks[1].list) = 2
  /\ \E task_id \in IdArgs : FirstWithId(tasks[1].list, task_id) = 0

\* C9: display_tasks prints the date's tasks sorted by time ascending, with
\* every task without a time after every task with a time.
C9_UntimedTasksLast ==
  lastOp.op = "display_tasks" =>
    \A i, j \in 1..Len(lastOp.out) :
      i < j =>
        /\ ~(lastOp.out[i].time = <<>> /\ lastOp.out[j].time # <<>>)
        /\ (lastOp.out[i].time # <<>> /\ lastOp.out[j].time # <<>>
              => ~StrLess(lastOp.out[j].time, lastOp.out[i].time))

IdBag(lst) ==
  [x \in {lst[j].id : j \in 1..Len(lst)} |->
     Cardinality({j \in 1..Len(lst) : lst[j].id = x})]

\* the same date-keys, and under each the same ids as many times
SameIds(d1, d2) ==
  /\ Keys(d1) = Keys(d2)
  /\ \A k \in Keys(d1) : IdBag(GetList(d1, k)) = IdBag(GetList(d2, k))

\* C15: add_task gives the task it creates the current clock second as id
\* and leaves the ids of the other tasks alone, and the clock never goes
\* back, so tasks added in different seconds have different ids; complete,
\* update, display and a load of the file that was saved change no id.
C15_IdsFromClock ==
  [][/\ now' >= now
     /\ lastOp'.op = "add_task" /\ tasks' # tasks =>
          \E k \in Keys(tasks') :
            LET new == GetList(tasks', k)
            IN /\ new # <<>>
               /\ new[Len(new)].id = now
               /\ SubSeq(new, 1, Len(new) - 1) = GetList(tasks, k)
               /\ \A k2 \in Keys(tasks') \ {k} :
                    GetList(tasks', k2) = GetList(tasks, k2)
     /\ lastOp'.op \in {"complete_task", "update_task", "display_tasks",
                        "display_week"} => SameIds(tasks, tasks')
     /\ lastOp'.op = "load_data" /\ lastOp'.ret = "None"
          /\ file = save_data(tasks) => SameIds(tasks, tasks')]_vars

\* a task was added in second 1 to the list of a task added in second 0
C15_Witness ==
  /\ lastOp.op = "add_task"
  /\ now = 1
  /\ file = save_data(tasks)
  /\ \E date \in DateArgs :
       LET lst == get_tasks(tasks, date)
       IN /\ Len(lst) = 2
          /\ lst[1].id = 0 /\ lst[1].description = DescA /\ lst[1].time = NoTime
          /\ lst[2].id = 1

\* the file holds a JSON object of lists of task records that all have a
\* description: a file load_data reads to the end
ValidFile(f) ==
  /\ f.kind = "json"
  /\ f.data.t = "dict"
  /\ \A i \in 1..Len(f.data.v) : ListStatus(f.data.v[i].val) = "ok"

\* the task is the one the record describes
TaskOfRecord(task, rec) ==
  /\ task.description = rec.description
  /\ task.time = (IF "time" \in DOMAIN rec THEN rec.time ELSE <<>>)
  /\ task.completed = (IF "completed" \in DOMAIN rec THEN rec.completed ELSE FALSE)
  /\ "id" \in DOMAIN rec => task.id = rec.id

\* the mapping in memory is the mapping of the file: the same date-keys,
\* and under each the tasks of the file's records in their order
MappingOfFile(d, f) ==
  /\ Keys(d) = {f.data.v[i].date : i \in 1..Len(f.data.v)}
  /\ \A i \in 1..Len(f.data.v) :
       LET lst == GetList(d, f.data.v[i].date)
           recs == f.data.v[i].val.v
       IN /\ Len(lst) = Len(recs)
          /\ \A j \in 1..Len(recs) : TaskOfRecord(lst[j], recs[j].v)

\* C16: after load_data has read a valid file the mapping in memory is the
\* file's mapping, whatever the store held before: a date-key that the file
\* does not have is gone.
C16_LoadReplacesMapping ==
  lastOp = Call("load_data", "None", <<>>) /\ ValidFile(file) =>
    MappingOfFile(tasks, file)

\* C17, as claimed: add_task returns the task it created.
C17_AddReturnsTask == lastOp.op = "add_task" => lastOp.ret # "None"

\* C17, amended: add_task returns None; the task it created is the last of
\* the list of the given date (today if none), with the clock second as id,
\* the given description and time, and completed false.
C17_AddReturnsNone ==
  Ready =>
    \A description \in AddDescs, time \in AddTimes, date \in DateArgs :
      LET r == add_task(tasks, file, description, time, date, now)
          key == isoformat(IF date = <<>> THEN Today ELSE date[1])
          lst == GetList(r.tasks, key)
      IN /\ r.ret = "None"
         /\ lst # <<>>
         /\ lst[Len(lst)] = [id |-> now, description |-> description,
                             time |-> time, completed |-> FALSE]

\* add_task has returned after it created, in second 1, a task for another
\* day than today
C17_Witness ==
  /\ lastOp = Call("add_task", "None", <<>>)
  /\ LET lst == GetList(tasks, isoformat(OtherDay))
     IN /\ lst # <<>>
        /\ lst[Len(lst)] = [id |-> 1, description |-> DescA,
                            time |-> Time2359, completed |-> FALSE]

\* the tasks of a list with the number of times each occurs
TaskBag(lst) ==
  [t \in {lst[j] : j \in 1..Len(lst)} |->
     Cardinality({j \in 1..Len(lst) : lst[j] = t})]

\* d2 is d1 but for the order of the lists of the date-keys in shown
PermutedIn(d1, d2, shown) ==
  /\ Keys(d2) = Keys(d1)
  /\ \A k \in Keys(d1) :
       /\ TaskBag(GetList(d2, k)) = TaskBag(GetList(d1, k))
       /\ k \notin shown => GetList(d2, k) = GetList(d1, k)

\* C19: display_tasks(date) changes nothing but the order of the list of the
\* date: the date-keys, the lists of the other dates, and the tasks of the
\* list with all their fields are as they were; display_week does the same
\* for its seven dates.
C19_DisplayOnlyPermutes ==
  Ready =>
    \A date \in DateArgs :
      LET day == IF date = <<>> THEN Today ELSE date[1]
          monday == IF date = <<>> THEN SubDays(Today, weekday(Today))
                    ELSE date[1]
      IN /\ PermutedIn(tasks, display_tasks(tasks, file, date).tasks,
                       {isoformat(day)})
         /\ PermutedIn(tasks, display_week(tasks, file, date).tasks,
                       {isoformat(AddDays(monday, i)) : i \in 0..6})

\* display_tasks has printed two tasks in an order that is not the order the
\* file holds them in
C19_Witness ==
  /\ lastOp.op = "display_tasks"
  /\ Len(lastOp.out) = 2
  /\ lastOp.out[1].time = Time0830
  /\ lastOp.out[2].time = Time2359
  /\ file.kind = "json"
  /\ file.data.v[1].val.v[1].v.time = Time2359
  /\ tasks[1].list = lastOp.out

(***************************************************************************)
(* Properties of the interactive loop.                                     *)
(***************************************************************************)
\* C8: once input() has met the end of the input the loop has ended.
C8_EndOfInputEndsLoop == eof => pc = "done"

TodayText == <<"2", "0", "2", "4", "-", "0", "3", "-", "1", "5">>

LeapDayText == <<"2", "0", "2", "4", "-", "0", "2", "-", "2", "9">>

\* add lines of the canonical shape: plain words, then at most one HH:MM
\* token, then at most one YYYY-MM-DD token
CanonWords == {<<DescA>>, <<DescA, DescB>>, <<<<"B", "u", "y">>, <<"m", "i", "l", "k">>>>}

CanonTimes == {<<>>, <<Time2359>>, <<<<"0", "0", ":", "0", "0">>>>}

CanonDates == {<<>>, <<OtherDayText>>, <<LeapDayText>>}

\* C10: an add line of the canonical shape stores, at the end of the list of
\* the given date (today if none), a task whose description is the words
\* joined by single spaces and whose time is the HH:MM token ("" if none).
C10_AddLineCanonical ==
  pc = "input" =>
    \A words \in CanonWords, time \in CanonTimes, date \in CanonDates :
      LET raw == JoinWords(<<WordAdd>> \o words \o time \o date)
          r == main_step(tasks, file, now, raw)
          key == IF date = <<>> THEN TodayText ELSE date[1]
      IN /\ r.go
         /\ r.call.op = "add_task"
         /\ GetList(r.tasks, key) =
              Append(GetList(tasks, key),
                     [id |-> now,
                      description |-> JoinWords(words),
                      time |-> IF time = <<>> THEN <<>> ELSE time[1],
                      completed |-> FALSE])
         /\ \A k \in Keys(tasks) \ {key} : GetList(r.tasks, k) = GetList(tasks, k)

\* the loop has stored the task of a line with two words, a time and a date
C10_Witness ==
  /\ pc = "input"
  /\ lastOp.op = "add_task"
  /\ LET lst == GetList(tasks, OtherDayText)
     IN /\ lst # <<>>
        /\ lst[Len(lst)].description = <<"a", " ", "b">>
        /\ lst[Len(lst)].time = Time2359

\* C20: no line of the session completes, updates, re-times or deletes a
\* task of another date than today: in every step the list of such a date is
\* as it was, or has one task appended by an add, or is reordered by a
\* display; and no date-key disappears.
C20_MutationsConfinedToToday ==
  [][/\ Keys(tasks) \subseteq Keys(tasks')
     /\ \A k \in Keys(tasks) \ {TodayText} :
          LET old == GetList(tasks, k)
              new == GetList(tasks', k)
          IN \/ new = old
             \/ /\ lastOp'.op = "add_task"
                /\ Len(new) = Len(old) + 1
                /\ SubSeq(new, 1, Len(old)) = old
             \/ /\ lastOp'.op \in {"display_tasks", "display_week"}
                /\ TaskBag(new) = TaskBag(old)]_vars

\* a delete line has emptied today's list while another date holds a task
\* with the same id
C20_Witness ==
  /\ pc = "input"
  /\ lastOp = Call("delete_task", "True", <<>>)
  /\ HasKey(tasks, isoformat(Today))
  /\ GetList(tasks, isoformat(Today)) = <<>>
  /\ \E t \in AllTasks(tasks) : t.id = 0 /\ ~t.completed

\* tokens that int() rejects
NonNumericIds ==
  {<<"x">>, <<"1", "a">>, <<"-">>, <<"1", "-">>, <<"0", ":", "0">>,
   <<"-", "-", "1">>}

\* the commands that take a task id, in the case the user may type them
IdCommands ==
  {WordComplete, WordUpdate, WordTime, WordDelete,
   <<"D", "e", "l", "e", "t", "e">>}

\* the arguments after the id that make the line pass the command's test of
\* the number of arguments
IdCommandRest(command) ==
  IF Lower(command) = WordUpdate THEN {<<DescB>>, <<DescA, DescB>>}
  ELSE IF Lower(command) = WordTime THEN {<<Time0830>>, <<DescA>>}
  ELSE {<<>>}

\* C13: a complete, update, time or delete line whose task id does not parse
\* as an integer is answered with "Task ID must be a number.": no store
\* operation is called, the mapping and the file are as they were, and the
\* loop goes on.
C13_NonNumericIdRejected ==
  pc = "input" =>
    \A command \in IdCommands, id \in NonNumericIds :
      \A rest \in IdCommandRest(command) :
        LET r == main_step(tasks, file, now, JoinWords(<<command, id>> \o rest))
        IN /\ r.call = Call("none", "ValueError", <<>>)
           /\ r.tasks = tasks
           /\ r.file = file
           /\ r.go

\* the loop has answered a line with a non-numeric id while the store holds
\* a completed task
C13_Witness ==
  /\ pc = "input"
  /\ lastOp = Call("none", "ValueError", <<>>)
  /\ \E t \in AllTasks(tasks) : t.completed /\ t.id = 1

(***************************************************************************)
(* Properties of the loop on lines at the edges of the grammar.            *)
(***************************************************************************)
\* s.strip() == "": the string is empty or all blanks
IsBlank(s) == Strip(s) = <<>>

\* C11: every task of the store has a description that is not empty and not
\* all blanks, whatever lines the user has typed.
C11_DescriptionsNonEmpty ==
  \A t \in AllTasks(tasks) : ~IsBlank(t.description)

\* a valid HH:MM 24-hour string: two digits, a colon, two digits, with the
\* hour in 0..23 and the minute in 0..59
IsValidTime(s) ==
  /\ Len(s) = 5
  /\ s[3] = ":"
  /\ \A i \in {1, 2, 4, 5} : IsDigit(s[i])
  /\ DecVal(SubSeq(s, 1, 2)) <= 23
  /\ DecVal(SubSeq(s, 4, 5)) <= 59

\* C12: a time command never stores a malformed time: every task that a
\* pass of the loop through update_task has changed has a time that is empty
\* or a valid HH:MM string.
C12_MalformedTimeRejected ==
  [][lastOp'.op = "update_task" =>
       \A t \in AllTasks(tasks') :
         t \in AllTasks(tasks) \/ t.time = <<>> \/ IsValidTime(t.time)]_vars

\* the description an add line is to give: the tokens after the command
\* word, without the last token when it is stripped as the date and without
\* the first token that passes the test for a time, each removed once
ExpectedDescription(parts) ==
  LET n == Len(parts)
      dated == n >= 3 /\ Count(parts[n], "-") = 2
      timed == {k \in 2..n : IsTimeToken(parts[k])}
      first == IF timed = {} THEN 0
               ELSE CHOOSE a \in timed : \A b \in timed : a <= b
      keep(k) == k # first /\ ~(dated /\ k = n)
      RECURSIVE Kept(_)
      Kept(k) == IF k > n THEN <<>>
                 ELSE (IF keep(k) THEN <<parts[k]>> ELSE <<>>) \o Kept(k + 1)
  IN JoinWords(Kept(2))

\* C18: the task an add line stores has as description every token that was
\* neither stripped as the date nor taken as the time, in order, joined by
\* single spaces: whichever typed line explains the step, no other token is
\* lost.
C18_AddNeverDoubleStrips ==
  [][lastOp'.op = "add_task" /\ tasks' # tasks =>
       \A raw \in EdgeLines :
         LET parts == SplitWords(Strip(raw))
         IN Lower(parts[1]) = WordAdd /\ Len(parts) >= 2
              /\ main_step(tasks, file, now, raw).tasks = tasks' =>
              \E t \in AllTasks(tasks') :
                /\ t.description = ExpectedDescription(parts)
                /\ t.id = now]_vars

====
